---- MODULE Spec2Model ----
(***************************************************************************)
(* State-machine model of rfs (muhamadazmy/rfs):                           *)
(*   - docker2fl/src/main.rs : the converter's run()                       *)
(*   - src/main.rs           : the mount tool's main(), wait_child(), app()*)
(*   - src/meta/types.rs     : Dir::from / Dir::entries, Aci::new          *)
(*   - src/store/zdb.rs      : get_connection_info, make_inner,            *)
(*                             WithNamespace::on_acquire, ZdbStore get/set *)
(* Each program has its own specification over its own variables; the      *)
(* variables of the other programs stay at their initial value.            *)
(***************************************************************************)
EXTENDS Integers, Sequences, FiniteSets, TLC

VARIABLES
    \* docker2fl run()
    cpc,        \* position in run()
    cimage,     \* opts.image_name, a sequence of characters
    cfiles,     \* artifact file names that exist in the working directory
    ccreated,   \* fungi::Writer::new has created the artifact file
    cexit,      \* exit code of the converter process, Nil while running
    \* rfs main(), wait_child(), app()
    mdaemon,    \* opts.daemon
    mounted,    \* the target is a mount point (what `mountpoint -q` reports)
    mounted0,   \* the target was a mount point when the tool started
    ppc,        \* position of the process that was started (the parent)
    pexit,      \* its exit code, Nil while running
    polls,      \* iterations of wait_child's loop that found no mount
    psaw,       \* a poll of wait_child found the target mounted
    pidfile,    \* content of the pid file written by daemonize
    sigs,       \* pids that were sent SIGTERM
    child,      \* the daemonized child: none, app, exited, killed
    chexit,     \* the child's exit code, Nil while it has not exited
    apc,        \* position in app() of the process that runs it
    mroutes,    \* the route table read from the metadata
    router,     \* the router: (start, end, store) triples in insertion order
    trace,      \* the steps app() has performed, in order
    afail,      \* the step of app() that failed, None if none did
    \* Dir::from
    dpc,        \* position in Dir::from / Dir::entries
    dhdr,       \* the record outside its children: ok, bad_header, bad_contents
    drec,       \* the child list of the serialized directory record
    dino,       \* the inode the record is loaded under
    dx,         \* the counter x of Dir::entries
    dentries,   \* the entries pushed so far
    dres,       \* how Dir::from ended: ok, err (an Err result), panic
    \* Aci::new
    aciIn,      \* the serialized ACI and the host's answers for its names
    aciOut,     \* the result of Aci::new, NotCalled before the call
    \* zdb store
    zpc,        \* url, called: get_connection_info; make, ready, failed: a store
    zurl,       \* the parsed URL
    zinfo,      \* the ConnectionInfo and namespace of get_connection_info
    zw,         \* the WithNamespace customizer of the pool
    zconns,     \* the connections the pool has made: command log and state
    zbackend,   \* the blobs the backend holds, by key
    zops,       \* get and set calls made
    zlast       \* the last call and its result

convVars == <<cpc, cimage, cfiles, ccreated, cexit>>
mountVars == <<mdaemon, mounted, mounted0, ppc, pexit, polls, psaw, pidfile, sigs,
               child, chexit, apc, mroutes, router, trace, afail>>

dirVars == <<dpc, dhdr, drec, dino, dx, dentries, dres>>

aciVars == <<aciIn, aciOut>>

zdbVars == <<zpc, zurl, zinfo, zw, zconns, zbackend, zops, zlast>>

vars == <<convVars, mountVars, dirVars, aciVars, zdbVars>>

\* the variables of the other programs, which a program's actions leave alone
notConv == <<mountVars, dirVars, aciVars, zdbVars>>
notMount == <<convVars, dirVars, aciVars, zdbVars>>
notDir == <<convVars, mountVars, aciVars, zdbVars>>
notAci == <<convVars, mountVars, dirVars, zdbVars>>
notZdb == <<convVars, mountVars, dirVars, aciVars>>

None == "none"

\* an Option is a sequence: Nil for None, Some(x) for Some(x)
Nil == <<>>
Some(x) == <<x>>

(***************************************************************************)
(* Strings are sequences of one-character strings.                         *)
(***************************************************************************)
RECURSIVE SeqsUpTo(_, _)
SeqsUpTo(S, n) ==
    IF n = 0 THEN {<<>>}
    ELSE LET shorter == SeqsUpTo(S, n - 1)
         IN  shorter \cup {Append(s, c) : s \in {t \in shorter : Len(t) = n - 1}, c \in S}

Contains(s, c) == \E i \in 1..Len(s) : s[i] = c

(***************************************************************************)
(* docker2fl: run()                                                        *)
(***************************************************************************)
MaxNameLen == 5
NameChars == {"a", ":", "/"}
ImageNames == SeqsUpTo(NameChars, MaxNameLen) \ {<<>>}

\* docker_image: the image name, with ":latest" pushed when it holds no ':'
DockerImage(name) ==
    IF ~Contains(name, ":") THEN name \o <<":", "l", "a", "t", "e", "s", "t">> ELSE name

\* docker_image.replace([':', '/'], "-") + ".fl"
FlName(image) ==
    [i \in 1..Len(image) |-> IF image[i] \in {":", "/"} THEN "-" ELSE image[i]]
        \o <<".", "f", "l">>

ConvIdle ==
    /\ cpc = "idle"
    /\ cimage = <<>>
    /\ cfiles = {}
    /\ ccreated = FALSE
    /\ cexit = Nil

ConvInit ==
    /\ cpc = "logger"
    /\ cimage \in ImageNames
    /\ cfiles = {}
    /\ ccreated = FALSE
    /\ cexit = Nil

\* a `?` that returns Err from run(): main returns the error, exit code 1
ConvReturnErr ==
    /\ cpc' = "exited"
    /\ cexit' = Some(1)

\* simple_logger init()?
RunInitLogger ==
    /\ cpc = "logger"
    /\ \/ cpc' = "writer" /\ cexit' = cexit
       \/ ConvReturnErr
    /\ UNCHANGED <<cimage, cfiles, ccreated>>
    /\ UNCHANGED notConv

\* let meta = fungi::Writer::new(&fl_name, true).await?;
RunWriterNew ==
    /\ cpc = "writer"
    /\ \/ /\ cpc' = "router"
          /\ cfiles' = cfiles \cup {FlName(DockerImage(cimage))}
          /\ ccreated' = TRUE
          /\ cexit' = cexit
       \/ /\ ConvReturnErr
          /\ UNCHANGED <<cfiles, ccreated>>
    /\ UNCHANGED cimage
    /\ UNCHANGED notConv

\* let store = parse_router(&opts.store).await?;
RunParseRouter ==
    /\ cpc = "router"
    /\ \/ cpc' = "tmpdir" /\ cexit' = cexit
       \/ ConvReturnErr
    /\ UNCHANGED <<cimage, cfiles, ccreated>>
    /\ UNCHANGED notConv

\* tempdir::TempDir::new(..).expect(..): a failure panics, exit code 101
RunTmpDir ==
    /\ cpc = "tmpdir"
    /\ \/ cpc' = "convert" /\ cexit' = cexit
       \/ cpc' = "exited" /\ cexit' = Some(101)
    /\ UNCHANGED <<cimage, cfiles, ccreated>>
    /\ UNCHANGED notConv

\* let res = docker_to_fl.convert(store, None).await;
RunConvert ==
    /\ cpc = "convert"
    /\ \/ cpc' = "exited" /\ cexit' = Some(0)          \* res is Ok: Ok(())
       \/ cpc' = "cleanup" /\ cexit' = cexit     \* res.is_err()
    /\ UNCHANGED <<cimage, cfiles, ccreated>>
    /\ UNCHANGED notConv

\* tokio::fs::remove_file(fl_name).await?; return res;
RunCleanup ==
    /\ cpc = "cleanup"
    /\ \/ cfiles' = cfiles \ {FlName(DockerImage(cimage))}   \* removed
       \/ cfiles' = cfiles                                   \* remove_file failed
    /\ ConvReturnErr
    /\ UNCHANGED <<cimage, ccreated>>
    /\ UNCHANGED notConv

ConvNext ==
    \/ RunInitLogger
    \/ RunWriterNew
    \/ RunParseRouter
    \/ RunTmpDir
    \/ RunConvert
    \/ RunCleanup

(***************************************************************************)
(* rfs: main(), is_mountpoint(), wait_child(), app()                       *)
(***************************************************************************)
MaxPolls == 5
MaxRoutes == 2

\* text of the pid of the daemonized child, as `{}` formats it
ChildPidText == <<"4", "2">>

\* what daemonize leaves in the pid file: the pid, with or without a newline
PidFileContents == {ChildPidText, Append(ChildPidText, "\n")}

Digits == {"0", "1", "2", "3", "4", "5", "6", "7", "8", "9"}
DigitVal(c) ==
    CASE c = "0" -> 0 [] c = "1" -> 1 [] c = "2" -> 2 [] c = "3" -> 3 [] c = "4" -> 4
      [] c = "5" -> 5 [] c = "6" -> 6 [] c = "7" -> 7 [] c = "8" -> 8 [] c = "9" -> 9

RECURSIVE ParseDigits(_, _)
\* the digits of s accumulated onto acc; Err on a non-digit or on i32 overflow
ParseDigits(s, acc) ==
    IF s = <<>> THEN [ok |-> TRUE, v |-> acc]
    ELSE IF Head(s) \notin Digits THEN [ok |-> FALSE, v |-> 0]
    ELSE IF acc > (2147483647 - DigitVal(Head(s))) \div 10 THEN [ok |-> FALSE, v |-> 0]
    ELSE ParseDigits(Tail(s), acc * 10 + DigitVal(Head(s)))

\* buf.parse::<i32>(): an optional sign, then one or more digits, nothing else
ParseI32(s) ==
    IF s = <<>> THEN [ok |-> FALSE, v |-> 0]
    ELSE IF Head(s) \in {"+", "-"}
    THEN IF Tail(s) = <<>> THEN [ok |-> FALSE, v |-> 0]
         ELSE LET r == ParseDigits(Tail(s), 0)
              IN  IF Head(s) = "-" /\ r.ok THEN [ok |-> TRUE, v |-> 0 - r.v] ELSE r
    ELSE ParseDigits(s, 0)

ChildPid == ParseI32(ChildPidText).v

\* rows of the route table of a metadata artifact
Routes == {[start |-> 0, end |-> 127, url |-> "dir:///a"],
           [start |-> 128, end |-> 255, url |-> "zdb://b"]}
RouteTables == SeqsUpTo(Routes, MaxRoutes)

\* the store that store::make builds for a url
StoreOf(url) == <<"store", url>>

MountIdle ==
    /\ mdaemon = FALSE
    /\ mounted = FALSE
    /\ mounted0 = FALSE
    /\ ppc = "idle"
    /\ pexit = Nil
    /\ polls = 0
    /\ psaw = FALSE
    /\ pidfile = <<>>
    /\ sigs = {}
    /\ child = None
    /\ chexit = Nil
    /\ apc = "idle"
    /\ mroutes = <<>>
    /\ router = <<>>
    /\ trace = <<>>
    /\ afail = None

MountInit ==
    /\ mdaemon \in BOOLEAN
    /\ mounted \in BOOLEAN
    /\ mounted0 = mounted
    /\ ppc = "check"
    /\ pexit = Nil
    /\ polls = 0
    /\ psaw = FALSE
    /\ pidfile = <<>>
    /\ sigs = {}
    /\ child = None
    /\ chexit = Nil
    /\ apc = "idle"
    /\ mroutes = <<>>
    /\ router = <<>>
    /\ trace = <<>>
    /\ afail = None

appVars == <<apc, mroutes, router, trace, afail>>

\* is_mountpoint(target): Ok(status.success()) of `mountpoint -q target`, or
\* Err when the command cannot be run
IsMountpoint == {[ok |-> TRUE, v |-> mounted], [ok |-> FALSE, v |-> FALSE]}

\* MainCheck with the refusal lost: a mounted target is not turned away
MainCheck_NoRefusal ==
    /\ ppc = "check"
    /\ \E r \in IsMountpoint :
         IF ~r.ok
         THEN ppc' = "exited" /\ pexit' = Some(1)
         ELSE ppc' = (IF mdaemon THEN "daemonize" ELSE "app") /\ pexit' = pexit
    /\ apc' = (IF ppc' = "app" THEN "open" ELSE apc)
    /\ UNCHANGED <<mdaemon, mounted, mounted0, polls, psaw, pidfile, sigs, child, chexit,
                   mroutes, router, trace, afail>>
    /\ UNCHANGED notMount

\* main, lines 63-66: if is_mountpoint(&opts.target)? { exit(1) }
MainCheck ==
    /\ ppc = "check"
    /\ \E r \in IsMountpoint :
         IF ~r.ok \/ r.v
         THEN ppc' = "exited" /\ pexit' = Some(1)
         ELSE ppc' = (IF mdaemon THEN "daemonize" ELSE "app") /\ pexit' = pexit
    /\ apc' = (IF ppc' = "app" THEN "open" ELSE apc)
    /\ UNCHANGED <<mdaemon, mounted, mounted0, polls, psaw, pidfile, sigs, child, chexit,
                   mroutes, router, trace, afail>>
    /\ UNCHANGED notMount

\* main, lines 68-88: the pid file, the log file, daemon.execute()
MainDaemonize ==
    /\ ppc = "daemonize"
    /\ \/ \* NamedTempFile::new()?, current_dir()?, File::create(log)?, try_clone()?
          /\ ppc' = "exited" /\ pexit' = Some(1)
          /\ UNCHANGED <<pidfile, child, apc>>
       \/ \* Outcome::Parent(Err(err)) => bail!
          /\ ppc' = "exited" /\ pexit' = Some(1)
          /\ UNCHANGED <<pidfile, child, apc>>
       \/ \* Outcome::Parent(Ok(_)) in the parent; the child falls through to app()
          /\ ppc' = "wait" /\ pexit' = pexit
          /\ pidfile' \in PidFileContents
          /\ child' = "app"
          /\ apc' = "open"
    /\ UNCHANGED <<mdaemon, mounted, mounted0, polls, psaw, sigs, chexit,
                   mroutes, router, trace, afail>>
    /\ UNCHANGED notMount

\* wait_child, lines 108-113: one iteration of the loop; returning from
\* wait_child makes main return Ok(())
WaitPoll ==
    /\ ppc = "wait"
    /\ polls < MaxPolls
    /\ \E r \in IsMountpoint :
         IF ~r.ok
         THEN ppc' = "exited" /\ pexit' = Some(101) /\ UNCHANGED <<polls, psaw>>   \* unwrap panics
         ELSE IF r.v
         THEN ppc' = "exited" /\ pexit' = Some(0) /\ psaw' = TRUE /\ UNCHANGED polls
         ELSE ppc' = "wait" /\ pexit' = pexit /\ polls' = polls + 1 /\ UNCHANGED psaw
    /\ UNCHANGED <<mdaemon, mounted, mounted0, pidfile, sigs, child, chexit, appVars>>
    /\ UNCHANGED notMount

\* signal::kill(Pid::from_raw(v), SIGTERM): the child, if it is still running
\* and v is its pid, terminates
Killed(v) == IF v = ChildPid /\ child = "app" THEN "killed" ELSE child

\* WaitTimeout with the exit(1) of line 128 lost: wait_child returns and main
\* returns Ok(())
WaitTimeout_NoExit ==
    /\ ppc = "wait"
    /\ polls = MaxPolls
    /\ \E buf \in {pidfile, <<>>} :
         LET pid == ParseI32(buf)
         IN  IF pid.ok
             THEN sigs' = sigs \cup {pid.v} /\ child' = Killed(pid.v)
             ELSE UNCHANGED <<sigs, child>>
    /\ ppc' = "exited"
    /\ pexit' = Some(0)
    /\ UNCHANGED <<mdaemon, mounted, mounted0, polls, psaw, pidfile, chexit, appVars>>
    /\ UNCHANGED notMount

\* wait_child, lines 114-128: read the pid file, parse it, kill, exit(1)
WaitTimeout ==
    /\ ppc = "wait"
    /\ polls = MaxPolls
    /\ \E buf \in {pidfile, <<>>} :          \* read_to_string, or its failure
         LET pid == ParseI32(buf)
         IN  IF pid.ok
             THEN sigs' = sigs \cup {pid.v} /\ child' = Killed(pid.v)
             ELSE UNCHANGED <<sigs, child>>
    /\ ppc' = "exited"
    /\ pexit' = Some(1)
    /\ UNCHANGED <<mdaemon, mounted, mounted0, polls, psaw, pidfile, chexit, appVars>>
    /\ UNCHANGED notMount

\* the process that runs app(): the child in daemon mode, else the started one
AppRuns == child = "app" \/ (child = None /\ ppc = "app")

\* app() returns: rt.block_on(app(opts)) is main's result
AppExit(code) ==
    /\ apc' = "done"
    /\ IF child = "app"
       THEN child' = "exited" /\ chexit' = Some(code) /\ UNCHANGED <<ppc, pexit>>
       ELSE ppc' = "exited" /\ pexit' = Some(code) /\ UNCHANGED <<child, chexit>>

AppFail(step) == afail' = step /\ AppExit(1)

AppGoes(next) == apc' = next /\ UNCHANGED <<ppc, pexit, child, chexit, afail>>

\* app, lines 132-134: fungi::Reader::new(opts.meta)
AppOpen ==
    /\ AppRuns /\ apc = "open"
    /\ \/ AppGoes("routes") /\ trace' = Append(trace, <<"open">>)
       \/ AppFail("open") /\ UNCHANGED trace
    /\ UNCHANGED <<mdaemon, mounted, mounted0, polls, psaw, pidfile, sigs, mroutes, router>>
    /\ UNCHANGED notMount

\* app, lines 136-138: Router::new(), meta.routes()
AppRoutes ==
    /\ AppRuns /\ apc = "routes"
    /\ \/ /\ AppGoes("stores")
          /\ mroutes' \in RouteTables
          /\ trace' = Append(trace, <<"routes">>)
       \/ AppFail("routes") /\ UNCHANGED <<mroutes, trace>>
    /\ UNCHANGED <<mdaemon, mounted, mounted0, polls, psaw, pidfile, sigs, router>>
    /\ UNCHANGED notMount

\* AppMakeStore with the error of store::make swallowed: the loop goes on
AppMakeStore_ErrorSwallowed ==
    /\ AppRuns /\ apc = "stores"
    /\ Len(router) < Len(mroutes)
    /\ LET i == Len(router) + 1
           route == mroutes[i]
       IN  \/ /\ AppGoes("stores")
              /\ router' = Append(router, <<route.start, route.end, StoreOf(route.url)>>)
              /\ trace' = trace \o <<(<<"make", i>>), (<<"add", i>>)>>
           \/ /\ afail' = "store"
              /\ apc' = "stores"
              /\ router' = Append(router, <<route.start, route.end, StoreOf(None)>>)
              /\ UNCHANGED <<ppc, pexit, child, chexit, trace>>
    /\ UNCHANGED <<mdaemon, mounted, mounted0, polls, psaw, pidfile, sigs, mroutes>>
    /\ UNCHANGED notMount

\* app, lines 138-143: one iteration of the loop over the routes
AppMakeStore ==
    /\ AppRuns /\ apc = "stores"
    /\ Len(router) < Len(mroutes)
    /\ LET i == Len(router) + 1
           route == mroutes[i]
       IN  \/ /\ AppGoes("stores")
              /\ router' = Append(router, <<route.start, route.end, StoreOf(route.url)>>)
              /\ trace' = trace \o <<(<<"make", i>>), (<<"add", i>>)>>
           \/ AppFail("store") /\ UNCHANGED <<router, trace>>
    /\ UNCHANGED <<mdaemon, mounted, mounted0, polls, psaw, pidfile, sigs, mroutes>>
    /\ UNCHANGED notMount

\* app, lines 145-146: Cache::new(opts.cache, router), Filesystem::new(meta, cache)
AppCache ==
    /\ AppRuns /\ apc = "stores"
    /\ Len(router) = Len(mroutes)
    /\ AppGoes("mount")
    /\ trace' = Append(trace, <<"cache">>)
    /\ UNCHANGED <<mdaemon, mounted, mounted0, polls, psaw, pidfile, sigs, mroutes, router>>
    /\ UNCHANGED notMount

\* app, line 148: filesystem.mount(opts.target) establishes the mount, or fails
AppMount ==
    /\ AppRuns /\ apc = "mount"
    /\ trace' = Append(trace, <<"mount">>)
    /\ \/ AppGoes("serving") /\ mounted' = TRUE
       \/ AppFail("mount") /\ UNCHANGED mounted
    /\ UNCHANGED <<mdaemon, mounted0, polls, psaw, pidfile, sigs, mroutes, router>>
    /\ UNCHANGED notMount

\* app, line 148: the mount ends (unmounted) and mount() returns Ok
AppUnmount ==
    /\ AppRuns /\ apc = "serving"
    /\ mounted' = FALSE
    /\ AppExit(0)
    /\ UNCHANGED <<mdaemon, mounted0, polls, psaw, pidfile, sigs, mroutes, router, trace,
                   afail>>
    /\ UNCHANGED notMount

MountNext ==
    \/ MainCheck
    \/ MainDaemonize
    \/ WaitPoll
    \/ WaitTimeout
    \/ AppOpen
    \/ AppRoutes
    \/ AppMakeStore
    \/ AppCache
    \/ AppMount
    \/ AppUnmount

(***************************************************************************)
(* meta/types.rs: Dir::from, Dir::entries                                  *)
(***************************************************************************)
MaxEntries == 3
BlockLen == 16

\* a byte string of n bytes
Bytes(n) == [i \in 1..n |-> 0]

SerBlock(hashLen, keyLen) == [hash |-> Bytes(hashLen), key |-> Bytes(keyLen)]

\* a serialized child of a directory record: its name, whether its text
\* fields (name, aclkey) can be read, what attributes.which() gives, and the
\* blocks of a file
SerEntry(name, textok, which, blocks) ==
    [name |-> name, textok |-> textok, which |-> which, blocks |-> blocks]

SerEntries ==
    { SerEntry("d", TRUE, "dir", <<>>),
      SerEntry("f", TRUE, "file", <<SerBlock(BlockLen, BlockLen)>>),
      SerEntry("g", TRUE, "file",
               <<SerBlock(BlockLen, BlockLen), SerBlock(BlockLen - 1, BlockLen)>>),
      SerEntry("h", TRUE, "file", <<SerBlock(BlockLen, BlockLen + 1)>>),
      SerEntry("l", TRUE, "link", <<>>),
      SerEntry("s", TRUE, "special", <<>>),
      SerEntry("w", TRUE, "which_err", <<>>),
      SerEntry("t", FALSE, "dir", <<>>) }

DirRecords == SeqsUpTo(SerEntries, MaxEntries)

\* inodes, as the path of child positions from the root
Inodes == {<<1>>, <<1, 2>>}

\* Inode::at(x): the inode of the x-th child
At(ino, x) == Append(ino, x)

\* <[u8] as TryInto<[u8; 16]>>::try_into(..).is_ok()
TryInto16(bytes) == Len(bytes) = BlockLen

RECURSIVE LoadBlocks(_)
\* lines 115-128: the blocks of a file, in order; .expect() panics on the
\* first hash or key that is not 16 bytes long
LoadBlocks(blocks) ==
    IF blocks = <<>> THEN [st |-> "ok", blocks |-> <<>>]
    ELSE IF ~TryInto16(Head(blocks).hash) \/ ~TryInto16(Head(blocks).key)
    THEN [st |-> "panic", blocks |-> <<>>]
    ELSE LET rest == LoadBlocks(Tail(blocks))
         IN  IF rest.st = "ok"
             THEN [st |-> "ok", blocks |-> <<Head(blocks)>> \o rest.blocks]
             ELSE rest

\* lines 103-141: the kind of an entry
LoadKind(e) ==
    CASE e.which = "which_err" -> [st |-> "err", kind |-> "Unknown", blocks |-> <<>>]
      [] e.which = "dir" -> [st |-> "ok", kind |-> "SubDir", blocks |-> <<>>]
      [] e.which = "file" ->
           LET b == LoadBlocks(e.blocks)
           IN  [st |-> b.st, kind |-> "File", blocks |-> b.blocks]
      [] e.which = "link" -> [st |-> "ok", kind |-> "Link", blocks |-> <<>>]
      [] OTHER -> [st |-> "ok", kind |-> "Unknown", blocks |-> <<>>]

\* LoadEntry with the `continue` of lines 143-145 lost
LoadEntry_UnknownKept(ino, x, e) ==
    IF ~e.textok THEN [st |-> "err", entry |-> None]
    ELSE LET k == LoadKind(e)
         IN  IF k.st # "ok" THEN [st |-> k.st, entry |-> None]
             ELSE [st |-> "push",
                   entry |-> [inode |-> At(ino, x), name |-> e.name, kind |-> k.kind,
                              blocks |-> k.blocks]]

\* lines 90-147: one iteration of the loop of Dir::entries for the x-th child
LoadEntry(ino, x, e) ==
    IF ~e.textok THEN [st |-> "err", entry |-> None]
    ELSE LET k == LoadKind(e)
         IN  IF k.st # "ok" THEN [st |-> k.st, entry |-> None]
             ELSE IF k.kind = "Unknown" THEN [st |-> "skip", entry |-> None]
             ELSE [st |-> "push",
                   entry |-> [inode |-> At(ino, x), name |-> e.name, kind |-> k.kind,
                              blocks |-> k.blocks]]

DirIdle ==
    /\ dpc = "idle"
    /\ dhdr = "ok"
    /\ drec = <<>>
    /\ dino = <<>>
    /\ dx = 0
    /\ dentries = <<>>
    /\ dres = None

DirInit ==
    /\ dpc = "header"
    /\ dhdr \in {"ok", "bad_header", "bad_contents"}
    /\ drec \in DirRecords
    /\ dino \in Inodes
    /\ dx = 0
    /\ dentries = <<>>
    /\ dres = None

\* Dir::from, lines 51-60: read_message, get_root, get_name, get_parent; each
\* `?` returns Err on a record it cannot read
DirHeader ==
    /\ dpc = "header"
    /\ IF dhdr = "bad_header"
       THEN dpc' = "done" /\ dres' = "err"
       ELSE dpc' = "contents" /\ dres' = dres
    /\ UNCHANGED <<dhdr, drec, dino, dx, dentries>>
    /\ UNCHANGED notDir

\* Dir::entries, lines 86-89: entries = vec![], x = 0, dir.get_contents()?
DirContents ==
    /\ dpc = "contents"
    /\ dx' = 0
    /\ dentries' = <<>>
    /\ IF dhdr = "bad_contents"
       THEN dpc' = "done" /\ dres' = "err"
       ELSE dpc' = "loop" /\ dres' = dres
    /\ UNCHANGED <<dhdr, drec, dino>>
    /\ UNCHANGED notDir

\* DirEntry with x counted after the `continue`: skipped children get no index
DirEntry_SkippedNotCounted ==
    /\ dpc = "loop"
    /\ dx < Len(drec)
    /\ dx' = dx + 1
    /\ LET r == LoadEntry(dino, Len(dentries) + 1, drec[dx + 1])
       IN  CASE r.st = "push" ->
                  dentries' = Append(dentries, r.entry) /\ UNCHANGED <<dpc, dres>>
             [] r.st = "skip" -> UNCHANGED <<dentries, dpc, dres>>
             [] r.st = "err" -> dpc' = "done" /\ dres' = "err" /\ UNCHANGED dentries
             [] r.st = "panic" -> dpc' = "done" /\ dres' = "panic" /\ UNCHANGED dentries
    /\ UNCHANGED <<dhdr, drec, dino>>
    /\ UNCHANGED notDir

\* Dir::entries, lines 89-148: one iteration of the loop
DirEntry ==
    /\ dpc = "loop"
    /\ dx < Len(drec)
    /\ dx' = dx + 1
    /\ LET r == LoadEntry(dino, dx + 1, drec[dx + 1])
       IN  CASE r.st = "push" ->
                  dentries' = Append(dentries, r.entry) /\ UNCHANGED <<dpc, dres>>
             [] r.st = "skip" -> UNCHANGED <<dentries, dpc, dres>>
             [] r.st = "err" -> dpc' = "done" /\ dres' = "err" /\ UNCHANGED dentries
             [] r.st = "panic" -> dpc' = "done" /\ dres' = "panic" /\ UNCHANGED dentries
    /\ UNCHANGED <<dhdr, drec, dino>>
    /\ UNCHANGED notDir

\* Dir::entries line 150 and Dir::from lines 63-77: Ok(Entry { .. })
DirFinish ==
    /\ dpc = "loop"
    /\ dx = Len(drec)
    /\ dpc' = "done"
    /\ dres' = "ok"
    /\ UNCHANGED <<dhdr, drec, dino, dx, dentries>>
    /\ UNCHANGED notDir

DirNext ==
    \/ DirHeader
    \/ DirContents
    \/ DirEntry
    \/ DirFinish

(***************************************************************************)
(* meta/types.rs: Aci::new                                                 *)
(* An i64 is its four 16-bit limbs, most significant first (two's          *)
(* complement); a u32 is its two 16-bit limbs.                             *)
(***************************************************************************)
\* -1 as i64
MinusOne == <<65535, 65535, 65535, 65535>>

\* 1000 as i64
DefaultId == <<0, 0, 0, 1000>>

\* `as u32` of an i64: the low 32 bits
AsU32(v) == <<v[3], v[4]>>

\* `as i64` of a u32 (uid.as_raw(), gid.as_raw()): zero extension
AsI64(u) == <<0, 0, u[1], u[2]>>

\* persisted ids: -1, 0, 5, 1000, -2, 2^32 + 5
PersistedIds ==
    {MinusOne, <<0, 0, 0, 0>>, <<0, 0, 0, 5>>, <<0, 0, 0, 1000>>,
     <<65535, 65535, 65535, 65534>>, <<0, 1, 0, 5>>}

\* what User::from_name / Group::from_name give for the recorded name:
\* Err, Ok(None), Ok(Some(id))
Lookups ==
    {[st |-> "err", id |-> <<0, 0>>], [st |-> "none", id |-> <<0, 0>>],
     [st |-> "some", id |-> <<0, 33>>], [st |-> "some", id |-> <<1, 7>>]}

\* a serialized ACI with what the host's databases answer for its names
AciInputs ==
    [readable : BOOLEAN, uid : PersistedIds, gid : PersistedIds,
     uname : {None, "u"}, gname : {None, "g"},
     ulookup : Lookups, glookup : Lookups, mode : {493}]

\* lines 186-197 and 199-210: the compatibility rule for one id
ResolveId(id, hasName, lookup) ==
    IF id = MinusOne
    THEN IF hasName
         THEN IF lookup.st = "some" THEN AsI64(lookup.id) ELSE DefaultId
         ELSE DefaultId
    ELSE id

\* Aci::new with the gid rule keyed on uid
AciNew_GidKeyedOnUid(in) ==
    IF ~in.readable THEN [st |-> "err"]
    ELSE [st |-> "ok",
          user |-> AsU32(ResolveId(in.uid, in.uname # None, in.ulookup)),
          group |-> AsU32(IF in.uid = MinusOne
                          THEN ResolveId(MinusOne, in.gname # None, in.glookup)
                          ELSE in.gid),
          mode |-> in.mode]

\* Aci::new, lines 177-217
AciNew(in) ==
    IF ~in.readable THEN [st |-> "err"]
    ELSE [st |-> "ok",
          user |-> AsU32(ResolveId(in.uid, in.uname # None, in.ulookup)),
          group |-> AsU32(ResolveId(in.gid, in.gname # None, in.glookup)),
          mode |-> in.mode]

\* no result yet
NotCalled == [st |-> "none"]

AciIdle ==
    /\ aciIn = <<>>
    /\ aciOut = NotCalled

AciInit ==
    /\ aciIn \in AciInputs
    /\ aciOut = NotCalled

\* a call of Aci::new on the serialized ACI
AciLoad ==
    /\ aciOut.st = "none"
    /\ aciOut' = AciNew(aciIn)
    /\ UNCHANGED aciIn
    /\ UNCHANGED notAci

AciNext == AciLoad

(***************************************************************************)
(* store/zdb.rs: get_connection_info, make_inner, on_acquire, get, set     *)
(***************************************************************************)
MaxPathLen == 4
MaxConns == 2
MaxOps == 2
DefaultPort == 9900

\* a path is a sequence of tokens: "/" and pieces of text without a "/"
PathTokens == {"/", "default", "custom"}
Paths == SeqsUpTo(PathTokens, MaxPathLen)

\* the literal "default"
DefaultNs == <<"default">>

\* what url::Url::parse gives for a zdb URL: with a host, user information and
\* a port are optional and the path is empty or starts with "/"; without a
\* host (zdb:///path, zdb:path) there is only the path
ParsedUrl(username, password, host, port, path) ==
    [username |-> username, password |-> password, host |-> host, port |-> port,
     path |-> path]

UrlInputs ==
    {ParsedUrl(un, pw, Some("hub.grid.tf"), port, path) :
        un \in {"", "username"}, pw \in {Nil, Some("pw")},
        port \in {Nil, Some(9900), Some(6379)},
        path \in {p \in Paths : p = <<>> \/ Head(p) = "/"}}
    \cup
    {ParsedUrl("", Nil, Nil, Nil, path) :
        path \in {p \in Paths : Len(p) >= 2 => ~(p[1] = "/" /\ p[2] = "/")}}

RECURSIVE Split(_)
\* str::split('/'): the pieces between the "/" tokens, at least one
Split(s) ==
    IF ~Contains(s, "/") THEN <<s>>
    ELSE LET i == CHOOSE i \in 1..Len(s) : s[i] = "/" /\ \A j \in 1..(i - 1) : s[j] # "/"
         IN  <<SubSeq(s, 1, i - 1)>> \o Split(SubSeq(s, i + 1, Len(s)))

\* Url::path_segments(): None unless the path starts with "/", else the split
\* of what follows it
PathSegments(u) ==
    IF u.path # <<>> /\ Head(u.path) = "/" THEN Some(Split(Tail(u.path))) ELSE Nil

Tcp(host, port) == [kind |-> "tcp", host |-> host, port |-> port, path |-> Nil]
Unix(path) == [kind |-> "unix", host |-> Nil, port |-> Nil, path |-> path]

\* get_connection_info with the namespace taken from the first path segment
GetConnectionInfo_FirstSegment(u) ==
    LET segs == PathSegments(u)
        an == IF u.host # Nil
              THEN <<Tcp(u.host[1], IF u.port # Nil THEN u.port[1] ELSE DefaultPort),
                     IF segs # Nil THEN Some(segs[1][1]) ELSE Nil>>
              ELSE <<Unix(u.path), Nil>>
    IN  [addr |-> an[1],
         db |-> 0,
         username |-> IF u.username = "" THEN Nil ELSE Some(u.username),
         password |-> u.password,
         namespace |-> an[2]]

\* get_connection_info, lines 46-75
GetConnectionInfo(u) ==
    LET segs == PathSegments(u)
        an == IF u.host # Nil
              THEN <<Tcp(u.host[1], IF u.port # Nil THEN u.port[1] ELSE DefaultPort),
                     IF segs # Nil THEN Some(segs[1][Len(segs[1])]) ELSE Nil>>
              ELSE <<Unix(u.path), Nil>>
    IN  [addr |-> an[1],
         db |-> 0,
         username |-> IF u.username = "" THEN Nil ELSE Some(u.username),
         password |-> u.password,
         namespace |-> an[2]]

\* make_inner, lines 78-83: the customizer takes the namespace and the password
WithNamespace(u) ==
    LET info == GetConnectionInfo(u)
    IN  [namespace |-> info.namespace, password |-> info.password]

\* on_acquire with the guard `ns != "default"` lost
SelectCmd_DefaultSelected(w) ==
    IF w.namespace # Nil
    THEN Some(<<"SELECT", w.namespace[1]>> \o w.password)
    ELSE Nil

\* on_acquire, lines 25-40: the command issued on a new connection, if any
SelectCmd(w) ==
    IF w.namespace # Nil /\ w.namespace[1] # DefaultNs
    THEN Some(<<"SELECT", w.namespace[1]>> \o w.password)
    ELSE Nil

Keys == {"k1", "k2"}
Blobs == {<<>>, <<7>>}

\* the URLs the stores of this model are made for
ZdbUrls ==
    {ParsedUrl("", Nil, Some("hub.grid.tf"), Some(9900), <<>>),
     ParsedUrl("username", Nil, Some("hub.grid.tf"), Nil, <<"/", "custom">>),
     ParsedUrl("username", Some("pw"), Some("hub.grid.tf"), Nil, <<"/", "custom">>),
     ParsedUrl("", Some("pw"), Some("hub.grid.tf"), Nil, <<"/", "default">>),
     ParsedUrl("", Nil, Some("hub.grid.tf"), Nil, <<"/">>),
     ParsedUrl("", Nil, Nil, Nil, <<"/", "custom">>)}

NoResult == [op |-> "none", key |-> "", fault |-> "none", res |-> "none", blob |-> <<>>]

ZdbIdle ==
    /\ zpc = "idle"
    /\ zurl = <<>>
    /\ zinfo = <<>>
    /\ zw = <<>>
    /\ zconns = <<>>
    /\ zbackend = <<>>
    /\ zops = 0
    /\ zlast = NoResult

\* a URL handed to get_connection_info
UrlInit ==
    /\ zpc = "url"
    /\ zurl \in UrlInputs
    /\ zinfo = <<>>
    /\ zw = <<>>
    /\ zconns = <<>>
    /\ zbackend = <<>>
    /\ zops = 0
    /\ zlast = NoResult

\* a URL handed to make, and a backend that holds any blobs
ZdbInit ==
    /\ zpc = "make"
    /\ zurl \in ZdbUrls
    /\ zinfo = <<>>
    /\ zw = <<>>
    /\ zconns = <<>>
    /\ zbackend \in [Keys -> {Nil} \cup {Some(b) : b \in Blobs}]
    /\ zops = 0
    /\ zlast = NoResult

\* a call of get_connection_info
UrlCall ==
    /\ zpc = "url"
    /\ zpc' = "called"
    /\ zinfo' = GetConnectionInfo(zurl)
    /\ UNCHANGED <<zurl, zw, zconns, zbackend, zops, zlast>>
    /\ UNCHANGED notZdb

\* make_inner, lines 77-97: the manager or the pool may fail to build
MakeInner ==
    /\ zpc = "make"
    /\ zinfo' = [GetConnectionInfo(zurl) EXCEPT !.password = Nil]
    /\ zw' = WithNamespace(zurl)
    /\ zpc' \in {"ready", "failed"}
    /\ UNCHANGED <<zurl, zconns, zbackend, zops, zlast>>
    /\ UNCHANGED notZdb

\* the outcomes of pool.get(): no connection; a pooled connection; a new
\* connection, on which on_acquire has run and which is dropped if it failed
Acquisitions ==
    {[ok |-> FALSE, conns |-> zconns, c |-> 0]}
    \cup {[ok |-> TRUE, conns |-> zconns, c |-> i] :
            i \in {j \in 1..Len(zconns) : zconns[j].state = "pooled"}}
    \cup (IF Len(zconns) >= MaxConns THEN {}
          ELSE LET cmd == SelectCmd(zw)
                   n == Len(zconns) + 1
               IN  IF cmd = Nil
                   THEN {[ok |-> TRUE,
                          conns |-> Append(zconns, [log |-> <<>>, state |-> "pooled"]),
                          c |-> n]}
                   ELSE {[ok |-> TRUE,
                          conns |-> Append(zconns, [log |-> cmd, state |-> "pooled"]),
                          c |-> n],
                         [ok |-> FALSE,
                          conns |-> Append(zconns, [log |-> cmd, state |-> "dropped"]),
                          c |-> n]})

\* a command sent on connection c
Sent(conns, c, command) ==
    [conns EXCEPT ![c].log = Append(@, command)]

\* get without the is_empty check
GetReply_EmptyAccepted(reply) ==
    IF reply = Nil THEN [res |-> "KeyNotFound", blob |-> <<>>]
    ELSE [res |-> "ok", blob |-> reply[1]]

\* get, lines 117-123: the result for the reply Option<Vec<u8>>
GetReply(reply) ==
    IF reply = Nil THEN [res |-> "KeyNotFound", blob |-> <<>>]
    ELSE IF reply[1] = <<>> THEN [res |-> "InvalidBlob", blob |-> <<>>]
    ELSE [res |-> "ok", blob |-> reply[1]]

\* ZdbStore::get, lines 113-124
Get ==
    /\ zpc = "ready"
    /\ zops < MaxOps
    /\ zops' = zops + 1
    /\ \E k \in Keys, a \in Acquisitions :
         IF ~a.ok
         THEN /\ zconns' = a.conns
              /\ zlast' = [op |-> "get", key |-> k, fault |-> "acquire",
                           res |-> "transport", blob |-> <<>>]
         ELSE /\ zconns' = Sent(a.conns, a.c, <<"GET", k>>)
              /\ \/ zlast' = [op |-> "get", key |-> k, fault |-> "command",
                              res |-> "transport", blob |-> <<>>]
                 \/ LET r == GetReply(zbackend[k])
                    IN  zlast' = [op |-> "get", key |-> k, fault |-> "none",
                                  res |-> r.res, blob |-> r.blob]
    /\ UNCHANGED <<zpc, zurl, zinfo, zw, zbackend>>
    /\ UNCHANGED notZdb

\* ZdbStore::set, lines 126-132
Set ==
    /\ zpc = "ready"
    /\ zops < MaxOps
    /\ zops' = zops + 1
    /\ \E k \in Keys, b \in Blobs, a \in Acquisitions :
         IF ~a.ok
         THEN /\ zconns' = a.conns
              /\ zlast' = [op |-> "set", key |-> k, fault |-> "acquire",
                           res |-> "transport", blob |-> <<>>]
              /\ UNCHANGED zbackend
         ELSE /\ zconns' = Sent(a.conns, a.c, <<"SET", k>>)
              /\ \/ /\ zlast' = [op |-> "set", key |-> k, fault |-> "command",
                                 res |-> "transport", blob |-> <<>>]
                    /\ UNCHANGED zbackend
                 \/ /\ zlast' = [op |-> "set", key |-> k, fault |-> "none",
                                 res |-> "ok", blob |-> <<>>]
                    /\ zbackend' = [zbackend EXCEPT ![k] = Some(b)]
    /\ UNCHANGED <<zpc, zurl, zinfo, zw>>
    /\ UNCHANGED notZdb

UrlNext == UrlCall

ZdbNext ==
    \/ MakeInner
    \/ Get
    \/ Set

(***************************************************************************)
(* Specifications: one per program                                         *)
(***************************************************************************)
InitConv == ConvInit /\ MountIdle /\ DirIdle /\ AciIdle /\ ZdbIdle

SpecConv == InitConv /\ [][ConvNext]_vars

InitMount == MountInit /\ ConvIdle /\ DirIdle /\ AciIdle /\ ZdbIdle

SpecMount == InitMount /\ [][MountNext]_vars

InitDir == DirInit /\ ConvIdle /\ MountIdle /\ AciIdle /\ ZdbIdle

SpecDir == InitDir /\ [][DirNext]_vars

InitAci == AciInit /\ ConvIdle /\ MountIdle /\ DirIdle /\ ZdbIdle

SpecAci == InitAci /\ [][AciNext]_vars

InitUrl == UrlInit /\ ConvIdle /\ MountIdle /\ DirIdle /\ AciIdle

SpecUrl == InitUrl /\ [][UrlNext]_vars

InitZdb == ZdbInit /\ ConvIdle /\ MountIdle /\ DirIdle /\ AciIdle

SpecZdb == InitZdb /\ [][ZdbNext]_vars

(***************************************************************************)
(* Claims                                                                  *)
(***************************************************************************)
IsPrefix(a, b) == Len(a) <= Len(b) /\ SubSeq(b, 1, Len(a)) = a

InSeq(x, s) == \E i \in 1..Len(s) : s[i] = x

\* C1: every failure of run() after fungi::Writer::new created the artifact
\* file (parse_router as well as convert) leaves no artifact file at exit.
C1_ArtifactDeletedOnFailure ==
    (cpc = "exited" /\ ccreated /\ cexit # <<0>>)
        => FlName(DockerImage(cimage)) \notin cfiles

\* C2: in daemon mode, when the loop of wait_child ends without a poll that
\* found the mount, the parent sends SIGTERM to the daemonized child and then
\* exits with code 1, whatever the pid file holds.
C2_TimeoutKillsChild ==
    (ppc = "exited" /\ polls = MaxPolls) => (ChildPid \in sigs /\ pexit = <<1>>)

\* C3: when the target is a mount point at start-up the tool exits with code 1
\* and never daemonizes, opens the metadata, creates a store or mounts.
C3_MountedTargetRefused ==
    mounted0 =>
        /\ ppc \in {"check", "exited"}
        /\ ppc = "exited" => pexit = <<1>>
        /\ child = None /\ pidfile = <<>>
        /\ apc = "idle" /\ trace = <<>> /\ mroutes = <<>> /\ router = <<>>

C3_Witness == mounted0 /\ ppc = "exited" /\ pexit = <<1>>

RECURSIVE StoreSteps(_)
StoreSteps(n) ==
    IF n = 0 THEN <<>> ELSE StoreSteps(n - 1) \o <<(<<"make", n>>), (<<"add", n>>)>>

ExpectedTrace(rs) ==
    <<(<<"open">>), (<<"routes">>)>> \o StoreSteps(Len(rs)) \o <<(<<"cache">>), (<<"mount">>)>>

\* exit code of the process that runs app()
AppExitCode == IF child = None THEN pexit ELSE chexit

\* C4: app() opens the metadata, reads the routes, creates and adds one store
\* per route in route-table order, builds the cache and only then mounts; a
\* failure of the open, of the routes or of a store ends the run with a
\* non-zero exit code and the mount step is never reached.
C4_AppOrder ==
    /\ \E rs \in RouteTables : IsPrefix(trace, ExpectedTrace(rs))
    /\ Len(trace) >= 2 => IsPrefix(trace, ExpectedTrace(mroutes))
    /\ Len(router) <= Len(mroutes)
    /\ \A i \in 1..Len(router) :
          router[i] = <<mroutes[i].start, mroutes[i].end, StoreOf(mroutes[i].url)>>
    /\ InSeq(<<"cache">>, trace) => Len(router) = Len(mroutes)
    /\ afail \in {"open", "routes", "store"} =>
          /\ AppExitCode = <<1>>
          /\ ~InSeq(<<"mount">>, trace)
          /\ ~mounted

C4_Witness ==
    /\ apc = "serving" /\ mounted
    /\ Len(mroutes) >= 2
    /\ trace = ExpectedTrace(mroutes)

\* a file block of the record whose hash or key is not 16 bytes long
BadBlock(b) == Len(b.hash) # 16 \/ Len(b.key) # 16

HasBadBlock(rec) ==
    \E i \in 1..Len(rec) :
        rec[i].which = "file" /\ \E j \in 1..Len(rec[i].blocks) : BadBlock(rec[i].blocks[j])

\* C5: a record with a file block whose hash or key is not exactly 16 bytes
\* long is rejected by Dir::from with an error result: no abort, no entry.
C5_BadBlockRejected ==
    (dpc = "done" /\ HasBadBlock(drec)) => dres = "err"

KnownWhich == {"dir", "file", "link"}

\* a child that cannot be loaded whatever its neighbours are
Malformed(e) ==
    \/ ~e.textok
    \/ e.which = "which_err"
    \/ e.which = "file" /\ \E j \in 1..Len(e.blocks) : BadBlock(e.blocks[j])

KindOf(which) ==
    CASE which = "dir" -> "SubDir" [] which = "file" -> "File" [] which = "link" -> "Link"

KnownChildren(rec) == SelectSeq(rec, LAMBDA e : e.which \in KnownWhich)

ExpectedId(id, name, lookup) ==
    IF id # <<65535, 65535, 65535, 65535>> THEN <<id[3], id[4]>>
    ELSE IF name # None /\ lookup.st = "some" THEN lookup.id
    ELSE <<0, 1000>>

\* C7: Aci::new applies the compatibility rule to uid and to gid independently:
\* -1 becomes the id the host gives for the recorded name, or 1000 when the
\* name is absent or not found; any other id is kept, whatever the names.
C7_AciCompat ==
    (aciOut.st # "none" /\ aciIn.readable) =>
        /\ aciOut.st = "ok"
        /\ aciOut.user = ExpectedId(aciIn.uid, aciIn.uname, aciIn.ulookup)
        /\ aciOut.group = ExpectedId(aciIn.gid, aciIn.gname, aciIn.glookup)

C7_Witness ==
    /\ aciOut.st = "ok"
    /\ aciIn.uid = MinusOne /\ aciIn.uname = None /\ aciOut.user = <<0, 1000>>
    /\ aciIn.gid = <<0, 0, 0, 5>> /\ aciIn.gname # None /\ aciIn.glookup.st = "some"
    /\ aciOut.group = <<0, 5>>

\* C8: ZdbStore::get returns the stored blob unchanged when the key holds a
\* non-empty blob, KeyNotFound when the key is absent, InvalidBlob when the
\* backend returns an empty body, a transport error when no connection can be
\* acquired or the command fails; an empty blob is never a success.
C8_GetOutcomes ==
    zlast.op = "get" =>
        /\ zlast.res \in {"ok", "KeyNotFound", "InvalidBlob", "transport"}
        /\ zlast.res = "transport" <=> zlast.fault \in {"acquire", "command"}
        /\ zlast.fault = "none" =>
              /\ zbackend[zlast.key] = <<>> => zlast.res = "KeyNotFound"
              /\ zbackend[zlast.key] = <<(<<>>)>> => zlast.res = "InvalidBlob"
              /\ (zbackend[zlast.key] # <<>> /\ zbackend[zlast.key] # <<(<<>>)>>) =>
                    (zlast.res = "ok" /\ <<zlast.blob>> = zbackend[zlast.key])
        /\ zlast.res = "ok" => zlast.blob # <<>>

C8_Witness ==
    /\ zlast.op = "get" /\ zlast.fault = "none"
    /\ zbackend[zlast.key] = <<(<<>>)>>
    /\ zlast.res = "InvalidBlob"
    /\ zops = 2

\* the part of a path after its last "/"
AfterLastSlash(path) ==
    LET i == CHOOSE i \in 1..Len(path) :
                 path[i] = "/" /\ \A j \in (i + 1)..Len(path) : path[j] # "/"
    IN  SubSeq(path, i + 1, Len(path))

\* the namespace of a URL, from the claim's words: the last path segment of a
\* URL with a host and a path
UrlNamespace(u) ==
    IF u.host # <<>> /\ u.path # <<>> THEN <<AfterLastSlash(u.path)>> ELSE <<>>

\* the select command the claim asks for on a new connection, if any
ExpectedSelect(u) ==
    IF UrlNamespace(u) # <<>> /\ UrlNamespace(u)[1] # <<"default">>
    THEN <<(<<"SELECT", UrlNamespace(u)[1]>> \o u.password)>>
    ELSE <<>>

IsSelect(command) == command[1] = "SELECT"

\* C9: a namespace select (with the password when the URL carries one) is the
\* first command on every pooled connection exactly when the URL's namespace
\* is present and is not `default`; otherwise no select is issued; when the
\* select fails no get or set runs on that connection.
C9_SelectOnAcquire ==
    \A c \in 1..Len(zconns) :
        LET log == zconns[c].log
        IN  /\ IF ExpectedSelect(zurl) = <<>>
               THEN \A i \in 1..Len(log) : ~IsSelect(log[i])
               ELSE /\ Len(log) >= 1
                    /\ log[1] = ExpectedSelect(zurl)[1]
                    /\ \A i \in 2..Len(log) : ~IsSelect(log[i])
            /\ zconns[c].state = "dropped" =>
                  (Len(log) = 1 /\ IsSelect(log[1]))

C9_Witness ==
    /\ zurl.password # <<>>
    /\ \E c \in 1..Len(zconns) :
          /\ zconns[c].state = "pooled"
          /\ Len(zconns[c].log) >= 2
          /\ zconns[c].log[1] = <<"SELECT", <<"custom">>, "pw">>
    /\ \E c \in 1..Len(zconns) : zconns[c].state = "dropped"

\* C10: with a host the address is TCP to the host on the URL's port, or on
\* 9900 without one, and the namespace is the last path segment, none when
\* the URL has no path; without a host the address is the Unix socket at the
\* URL's path and there is no namespace; the username is the URL's, or none
\* when it is empty.
C10_ConnectionInfo ==
    zpc = "called" =>
        /\ zurl.host # <<>> =>
              /\ zinfo.addr.kind = "tcp"
              /\ zinfo.addr.host = zurl.host[1]
              /\ zinfo.addr.port = (IF zurl.port = <<>> THEN 9900 ELSE zurl.port[1])
              /\ zinfo.namespace = UrlNamespace(zurl)
        /\ zurl.host = <<>> =>
              /\ zinfo.addr.kind = "unix"
              /\ zinfo.addr.path = zurl.path
              /\ zinfo.namespace = <<>>
        /\ zinfo.username = (IF zurl.username = "" THEN <<>> ELSE <<zurl.username>>)

C10_Witness ==
    /\ zpc = "called"
    /\ zurl.host # <<>> /\ zurl.port = <<>> /\ zurl.username = "username"
    /\ zurl.path = <<"/", "default", "/", "custom">>
    /\ zinfo.addr.port = 9900
    /\ zinfo.namespace = <<(<<"custom">>)>>

\* the components of an image name: the pieces between its "/"
Components(name) == Split(name)

\* an image reference: non-empty components, a ":" only inside the first
\* component (registry:port) or the last one (name:tag), one per component
WellFormedRef(name) ==
    LET cs == Components(name)
    IN  \A i \in 1..Len(cs) :
            /\ cs[i] # <<>>
            /\ cs[i][1] # ":" /\ cs[i][Len(cs[i])] # ":"
            /\ Cardinality({j \in 1..Len(cs[i]) : cs[i][j] = ":"}) <= 1
            /\ Contains(cs[i], ":") => i \in {1, Len(cs)}

\* a name has a tag when its last component holds a ":"
HasTag(name) == Contains(Components(name)[Len(Components(name))], ":")

\* C11: the converter uses the tag `latest` for every image name given without
\* a tag, also when the registry part carries a port, and leaves a name that
\* has a tag unchanged.
C11_DefaultTagLatest ==
    (cpc \notin {"idle", "logger"} /\ WellFormedRef(cimage)) =>
        DockerImage(cimage) =
            (IF HasTag(cimage) THEN cimage
             ELSE cimage \o <<":", "l", "a", "t", "e", "s", "t">>)

\* C12: in daemon mode the parent exits with code 0 only when one of its at
\* most 5 polls found the target mounted, and then it has sent no signal; once
\* the 5 polls have failed the parent exits 1 even if the mount appears later.
C12_ParentSuccessNeedsPoll ==
    /\ (mdaemon /\ pexit = <<0>>) =>
          (psaw /\ polls < 5 /\ sigs = {} /\ child # "killed")
    /\ (ppc = "exited" /\ polls = 5) => (pexit = <<1>> /\ ~psaw)

C12_Witness ==
    /\ mdaemon /\ pexit = <<0>> /\ psaw
    /\ polls = 4
    /\ sigs = {}

\* the position in rec of its k-th child of known kind
PosOfKnown(rec, k) ==
    CHOOSE i \in 1..Len(rec) :
        /\ rec[i].which \in KnownWhich
        /\ Cardinality({j \in 1..i : rec[j].which \in KnownWhich}) = k

\* C13: the child returned for the entry at position i of the serialized
\* child list has inode p.at(i), positions counting the skipped Unknown
\* entries, so the inodes depend on the record and the parent only and no two
\* returned children share one.
C13_InodeByPosition ==
    /\ \A k \in 1..Len(dentries) :
          dentries[k].inode = dino \o <<PosOfKnown(drec, k)>>
    /\ \A j, k \in 1..Len(dentries) :
          j # k => dentries[j].inode # dentries[k].inode

C13_Witness ==
    /\ dpc = "done" /\ dres = "ok"
    /\ Len(drec) = 3 /\ drec[1].which = "special"
    /\ Len(dentries) = 2
    /\ dentries[1].inode = dino \o <<2>>
    /\ dentries[2].inode = dino \o <<3>>

====
